---- MODULE Spec2Model ----
(***************************************************************************)
(* A model of src/src/trello.py: the TrelloAPI command-line client.        *)
(*                                                                         *)
(* Text that the code takes apart (card names, command arguments) is a     *)
(* sequence of one-character strings, so that str.split() and int() are    *)
(* computed and not assumed.  Text that the code only compares or prints   *)
(* (list names, method names, messages) is a TLA+ string.  A printed line  *)
(* built by an f-string is the sequence of its pieces.                     *)
(***************************************************************************)
EXTENDS Integers, Sequences, FiniteSets, TLC

VARIABLES
    pc,        \* position of the process
    args,      \* self.args: [method, arg1, arg2]
    board,     \* the remote board: list name -> sequence of [id, name] cards
    nextId,    \* the remote's next fresh card number
    edits,     \* number of changes other users made to the remote board
    tickets,   \* self.tickets: list name -> [ok, cards]; ok = FALSE is None
    requests,  \* the mutating remote requests issued so far, with their status
    output,    \* what has been printed
    err,       \* the uncaught exception that ended the process, "" if none
    idx,       \* loop position in self.tickets['Done'][1:]
    ret,       \* the status code the last card operation returned
    today,     \* datetime.datetime.today(), as a proleptic Gregorian ordinal
    week,      \* get_week(): [monday, friday, label]
    card,      \* the argument of a lone parse_card_name call
    ticket     \* its result

vars == <<pc, args, board, nextId, edits, tickets, requests, output, err,
          idx, ret, today, week, card, ticket>>

----------------------------------------------------------------------------
(* Bounds.                                                                 *)

MaxLen == 4        \* longest raw card name given to a lone parse_card_name
MaxDone == 2       \* most tickets after the first card of the Done list at startup
MaxDays == 120     \* number of consecutive days 'today' ranges over
FirstDay == 739200 \* first of those days (ordinal of 2024-11-10)
MaxEdits == 1      \* most cards other users add to the remote Done list

----------------------------------------------------------------------------
(* Program constants.                                                      *)

OK == 200             \* the one status the code takes for success
GENERIC_FAILURE == 400 \* what move_card returns for any failure
MONDAY_LOOKBACK == 7   \* days subtracted when today is a Monday
FRIDAY_OFFSET == 4     \* friday = monday + 4 days
DONE_START == 1        \* index of the first real ticket of the Done list
DAYS_PER_WEEK == 7     \* datetime.weekday() ranges over 0..6

\* The keys of self.tickets, in the dict's insertion order.
ListNames == <<"In progress", "Waiting for customer", "Testing", "Done">>
ListNameSet == {ListNames[k] : k \in 1..Len(ListNames)}

\* The module-level configuration the code reads.  Identifiers are opaque.
IN_PROGRESS_LIST_ID == "list-in-progress"
WAITING_LIST_ID == "list-waiting"
TESTING_LIST_ID == "list-testing"
DONE_LIST_ID == "list-done"
ALL_DONE_TICKETS_CARD_ID == "card-all"
JIRA_URL == "https://gojira.skyscanner.net/browse/"

\* The word get_week's label starts with (the source's is the Russian for
\* "week"; a TLA+ string holds ASCII only).
WEEK_WORD == "Week "

\* The statuses the remote may answer with besides 200.
FailureCodes == {401, 404}
StatusCodes == {OK} \cup FailureCodes

----------------------------------------------------------------------------
(* Python's str and int.                                                   *)

Whitespace == {" ", "\t", "\n"}
Digits == {"0", "1", "2", "3", "4", "5", "6", "7", "8", "9"}
DigitChars == <<"0", "1", "2", "3", "4", "5", "6", "7", "8", "9">>

RECURSIVE SplitAcc(_, _, _, _)
SplitAcc(s, i, cur, toks) ==
    LET flushed == IF cur = <<>> THEN toks ELSE Append(toks, cur)
    IN  IF i > Len(s) THEN flushed
        ELSE IF s[i] \in Whitespace THEN SplitAcc(s, i + 1, <<>>, flushed)
        ELSE SplitAcc(s, i + 1, Append(cur, s[i]), toks)

\* str.split(): the maximal runs of non-whitespace characters.
Split(s) == SplitAcc(s, 1, <<>>, <<>>)

Unsigned(tok) ==
    IF tok # <<>> /\ tok[1] \in {"+", "-"} THEN Tail(tok) ELSE tok

\* int(tok) does not raise ValueError: an optional sign, then digits, single
\* underscores allowed between digits.
IsInt(tok) ==
    LET b == Unsigned(tok)
    IN  /\ b # <<>>
        /\ \A i \in 1..Len(b) : b[i] \in Digits \cup {"_"}
        /\ b[1] \in Digits
        /\ b[Len(b)] \in Digits
        /\ \A i \in 1..(Len(b) - 1) : ~(b[i] = "_" /\ b[i + 1] = "_")

DigitVal(c) == (CHOOSE i \in 1..Len(DigitChars) : DigitChars[i] = c) - 1

RECURSIVE NatVal(_, _, _)
NatVal(b, i, acc) ==
    IF i > Len(b) THEN acc
    ELSE IF b[i] = "_" THEN NatVal(b, i + 1, acc)
    ELSE NatVal(b, i + 1, acc * Len(DigitChars) + DigitVal(b[i]))

\* int(tok) for a token IsInt accepts.
IntVal(tok) ==
    LET n == NatVal(Unsigned(tok), 1, 0)
    IN  IF tok[1] = "-" THEN 0 - n ELSE n

----------------------------------------------------------------------------
(* parse_card_name.                                                        *)

NoException == ""

EmptyTicket == [id |-> "", name |-> <<>>, story_points |-> <<"0">>]

\* The value returned, and the exception raised instead of it if any.
parse_card_name(c) ==
    IF c.name = <<>>
    THEN [exc |-> NoException, val |-> EmptyTicket]
    ELSE LET cards_name == Split(c.name)
             points == IF Len(cards_name) > 1 /\ IsInt(cards_name[Len(cards_name)])
                       THEN cards_name[Len(cards_name)]
                       ELSE <<"0">>
         IN  IF cards_name = <<>>
             THEN [exc |-> "IndexError", val |-> EmptyTicket]
             ELSE [exc |-> NoException,
                   val |-> [id |-> c.id, name |-> cards_name[1],
                            story_points |-> points]]

----------------------------------------------------------------------------
(* get_week.                                                               *)

\* datetime.weekday() of a proleptic Gregorian ordinal: ordinal 1 is a Monday.
weekday(d) == (d + DAYS_PER_WEEK - 1) % DAYS_PER_WEEK

\* The civil date [y, m, d] of an ordinal (ordinal 1 is 0001-01-01).
CivilFromOrdinal(n) ==
    LET z == n + 305
        era == z \div 146097
        doe == z - era * 146097
        yoe == (doe - (doe \div 1460) + (doe \div 36524) - (doe \div 146096)) \div 365
        doy == doe - (365 * yoe + (yoe \div 4) - (yoe \div 100))
        mp == (5 * doy + 2) \div 153
        d == doy - ((153 * mp + 2) \div 5) + 1
        m == IF mp < 10 THEN mp + 3 ELSE mp - 9
        y == yoe + era * 400 + (IF m <= 2 THEN 1 ELSE 0)
    IN  [y |-> y, m |-> m, d |-> d]

Pad2(n) == IF n < 10 THEN "0" \o ToString(n) ELSE ToString(n)

\* strftime('%d.%m.%Y')
strftime(n) ==
    LET c == CivilFromOrdinal(n)
    IN  Pad2(c.d) \o "." \o Pad2(c.m) \o "." \o ToString(c.y)

MutGetWeekNoLookback(t) ==
    LET monday == t - weekday(t)
        friday == monday + FRIDAY_OFFSET
    IN  [monday |-> monday, friday |-> friday,
         label |-> <<WEEK_WORD, strftime(monday), " - ", strftime(friday)>>]

get_week(t) ==
    LET diff == IF weekday(t) = 0 THEN MONDAY_LOOKBACK ELSE weekday(t)
        monday == t - diff
        friday == monday + FRIDAY_OFFSET
    IN  [monday |-> monday, friday |-> friday,
         label |-> <<WEEK_WORD, strftime(monday), " - ", strftime(friday)>>]

----------------------------------------------------------------------------
(* The remote board.                                                       *)

ListIds == {IN_PROGRESS_LIST_ID, WAITING_LIST_ID, TESTING_LIST_ID, DONE_LIST_ID}

\* get_list_id, and the list identifiers get_tickets_information passes.
get_list_id(list_name) ==
    IF list_name = "In progress" THEN IN_PROGRESS_LIST_ID
    ELSE IF list_name = "Testing" THEN TESTING_LIST_ID
    ELSE IF list_name = "Waiting for customer" THEN WAITING_LIST_ID
    ELSE IF list_name = "Done" THEN DONE_LIST_ID
    ELSE ""

Min(S) == CHOOSE x \in S : \A y \in S : x <= y

RECURSIVE Concat(_, _)
\* The concatenation of seqs[1..n].
Concat(seqs, n) == IF n = 0 THEN <<>> ELSE Concat(seqs, n - 1) \o seqs[n]

RemoteCardIds(b) ==
    UNION {{b[l][i].id : i \in 1..Len(b[l])} : l \in DOMAIN b}

\* The board after the remote deleted the card.
RemoteDelete(b, card_id) ==
    [l \in DOMAIN b |-> SelectSeq(b[l], LAMBDA c : c.id # card_id)]

\* The board after the remote created a card named card_name on the list.
RemoteCreate(b, list_id, card_name, n) ==
    [b EXCEPT ![list_id] = Append(@, [id |-> "c" \o ToString(n), name |-> card_name])]

\* The board after the remote renamed the card.
RemoteRename(b, card_id, new_name) ==
    [l \in DOMAIN b |->
        [i \in 1..Len(b[l]) |->
            IF b[l][i].id = card_id THEN [b[l][i] EXCEPT !.name = new_name]
            ELSE b[l][i]]]

\* The statuses the remote can answer a request with: success needs the
\* request's target to exist.
Answers(exists) == IF exists THEN StatusCodes ELSE FailureCodes

\* get_list_cards only tests the status against 200 and prints a fixed
\* message: one failing status stands for all of them.
FetchAnswers == {OK, Min(FailureCodes)}

Request(op, target, text, status) ==
    [op |-> op, target |-> target, text |-> text, status |-> status]

----------------------------------------------------------------------------
(* The snapshot and the lookups in it.                                     *)

None == [ok |-> FALSE, cards |-> <<>>]

ParseRaises(cards) ==
    \E i \in 1..Len(cards) : parse_card_name(cards[i]).exc # NoException

\* get_list_cards on a 200 response whose cards all parse.
ParsedList(cards) ==
    [ok |-> TRUE,
     cards |-> [i \in 1..Len(cards) |-> parse_card_name(cards[i]).val]]

CouldNotGet == <<"Could not get list of done tickets">>

\* Position in ListNames of the first list that is None, Len + 1 if none is.
FirstNone(tk) ==
    Min({k \in 1..Len(ListNames) : ~tk[ListNames[k]].ok} \cup {Len(ListNames) + 1})

\* What chain(*self.tickets.values()) yields before it raises TypeError on a
\* None list (Truncated) or ends.
Chained(tk) ==
    Concat([k \in 1..Len(ListNames) |-> tk[ListNames[k]].cards], FirstNone(tk) - 1)

Truncated(tk) == FirstNone(tk) <= Len(ListNames)

Raise(e) == [exc |-> e, val |-> ""]
Return(v) == [exc |-> NoException, val |-> v]

get_card_id(tk, card_name) ==
    LET cs == Chained(tk)
        hits == {i \in 1..Len(cs) : cs[i].name = card_name}
    IN  IF hits # {} THEN Return(cs[Min(hits)].id)
        ELSE IF Truncated(tk) THEN Raise("TypeError")
        ELSE Return("")

\* self.get_card_id(name) or self.get_card_id(name.split()[0])
ResolveCardId(tk, card_name) ==
    LET first == get_card_id(tk, card_name)
    IN  IF first.exc # NoException \/ first.val # "" THEN first
        ELSE IF Split(card_name) = <<>> THEN Raise("IndexError")
        ELSE get_card_id(tk, Split(card_name)[1])

\* f"{card['name']} - {card['story points']}"
Label(t) == t.name \o <<" ", "-", " ">> \o t.story_points

\* The card_name move_card computes from its argument (lines 142-153).
MoveCardName(tk, full_card_name) ==
    LET found == get_card_id(tk, full_card_name)
        cs == Chained(tk)
        hits == {i \in 1..Len(cs) : cs[i].id = found.val}
    IN  IF found.exc # NoException THEN [exc |-> found.exc, val |-> <<>>]
        ELSE IF found.val # ""
        THEN IF hits # {} THEN [exc |-> NoException, val |-> Label(cs[Min(hits)])]
             ELSE IF Truncated(tk) THEN [exc |-> "TypeError", val |-> <<>>]
             ELSE [exc |-> NoException, val |-> full_card_name]
        ELSE IF Split(full_card_name) = <<>>
        THEN [exc |-> "IndexError", val |-> <<>>]
        ELSE [exc |-> NoException, val |-> Split(full_card_name)[1]]

\* show_reply's printed text.
show_reply(status_code, operation) ==
    IF status_code = OK
    THEN <<"Card has been successfully ", operation, "d.">>
    ELSE <<"Card has not been ", operation, "d.",
           "Please check card's name and list's name (if required).\n",
           "Operation failed with ", ToString(status_code), " error.">>

----------------------------------------------------------------------------
(* Printing the lists, and the weekly report.                              *)

Text(l) == <<l>>

\* What show_list_tickets prints, and the exception that ends it if any.
show_list_tickets(tk, list_name) ==
    IF list_name \notin {Text(l) : l \in ListNameSet}
    THEN [exc |-> NoException,
          out |-> << <<"List ">> \o list_name \o <<" not found on current board">> >>]
    ELSE LET l == list_name[1]
             start == IF l = "Done" THEN DONE_START ELSE 0
             head == IF l = "Done"
                     THEN <<list_name, <<"  - All - contains list of all done tickets">> >>
                     ELSE <<list_name>>
             shown == SubSeq(tk[l].cards, start + 1, Len(tk[l].cards))
         IN  IF ~tk[l].ok THEN [exc |-> "TypeError", out |-> head]
             ELSE [exc |-> NoException,
                   out |-> head \o
                       [i \in 1..Len(shown) |->
                           <<"  - ">> \o shown[i].name \o <<" - ">>
                               \o shown[i].story_points \o <<" points">>]]

\* show_board: the lists are printed in order until one raises.
show_board(tk) ==
    LET last == Min({FirstNone(tk), Len(ListNames)})
    IN  [exc |-> IF Truncated(tk) THEN "TypeError" ELSE NoException,
         out |-> << <<"Hotels board\n">> >> \o
                 Concat([k \in 1..Len(ListNames) |->
                            show_list_tickets(tk, Text(ListNames[k])).out], last)]

ReportLine(t) ==
    <<"  - ", JIRA_URL>> \o t.name \o <<" - ">> \o t.story_points \o <<" points\n">>

\* The literal of line 219.
SentinelLine ==
    <<"  - ", "https://gojira.skyscanner.net/browse/", "A", "l", "l", " - ", "0",
      " points\n">>

\* list.remove(x) where x occurs: the first occurrence goes.
RemoveFirst(lines, x) ==
    LET k == Min({i \in 1..Len(lines) : lines[i] = x})
    IN  SubSeq(lines, 1, k - 1) \o SubSeq(lines, k + 1, Len(lines))

RECURSIVE SumPoints(_, _)
\* sum(int(card['story points']) for card in cards[i:]), i counted from 1.
SumPoints(cards, i) ==
    IF i > Len(cards) THEN 0
    ELSE IntVal(cards[i].story_points) + SumPoints(cards, i + 1)

\* get_weekly_story_points: it fetches the Done list again; status and
\* remote_cards are the remote's answer.
get_weekly_story_points(status, remote_cards) ==
    IF status # OK
    THEN [exc |-> "TypeError", val |-> 0, said |-> <<CouldNotGet>>]
    ELSE IF ParseRaises(remote_cards)
    THEN [exc |-> "IndexError", val |-> 0, said |-> <<>>]
    ELSE [exc |-> NoException,
          val |-> SumPoints(ParsedList(remote_cards).cards, DONE_START + 1),
          said |-> <<>>]

\* The list 'template' before the sentinel line is removed.
TemplateLines(tk, t) ==
    << get_week(t).label \o <<":\n\n">> >> \o
    Concat([k \in 1..Len(ListNames) |->
               << <<ListNames[k], ":\n">> >> \o
               [i \in 1..Len(tk[ListNames[k]].cards) |->
                   ReportLine(tk[ListNames[k]].cards[i])]],
           Len(ListNames))

\* create_letter_template: the text returned, the exception raised instead,
\* and what was printed on the way.
create_letter_template(tk, t, status, remote_cards) ==
    LET template == TemplateLines(tk, t)
        total == get_weekly_story_points(status, remote_cards)
    IN  IF Truncated(tk)
        THEN [exc |-> "TypeError", val |-> <<>>, said |-> <<>>]
        ELSE IF \A i \in 1..Len(template) : template[i] # SentinelLine
        THEN [exc |-> "ValueError", val |-> <<>>, said |-> <<>>]
        ELSE IF total.exc # NoException
        THEN [exc |-> total.exc, val |-> <<>>, said |-> total.said]
        ELSE [exc |-> NoException,
              val |-> LET lines == Append(RemoveFirst(template, SentinelLine),
                                          <<"SP per week: ", ToString(total.val), "\n">>)
                      IN  Concat(lines, Len(lines)),
              said |-> <<>>]

----------------------------------------------------------------------------
(* The boards and command lines a run starts from.                         *)

\* Raw card names found on the board: "All", "T1 3", "T2 5".
RawAll == <<"A", "l", "l">>
RawT1 == <<"T", "1", " ", "3">>
RawT2 == <<"T", "2", " ", "5">>
Pool == {RawAll, RawT1, RawT2}

NewCards(names, base) ==
    [i \in 1..Len(names) |-> [id |-> "c" \o ToString(base + i), name |-> names[i]]]

\* The first card of the Done list is the aggregation card "All" (lines
\* 231-232): comments are posted to it.
Sentinel == [id |-> ALL_DONE_TICKETS_CARD_ID, name |-> RawAll]

DoneLists ==
    {<<Sentinel>> \o NewCards(names, 1) :
        names \in UNION {[1..n -> Pool] : n \in 0..MaxDone}}

EmptyBoard == [l \in ListIds |-> <<>>]

\* The Done list, and at most one card on the three other lists.
Boards ==
    {[EmptyBoard EXCEPT ![DONE_LIST_ID] = d] : d \in DoneLists} \cup
    {[EmptyBoard EXCEPT ![DONE_LIST_ID] = d, ![l] = NewCards(<<name>>, 0)] :
        d \in DoneLists, l \in ListIds \ {DONE_LIST_ID}, name \in Pool}

NoArg == <<>>
CardArgs == {<<"T", "1">>, RawT1, <<"X", "9">>}
ListArgs == {Text("Testing"), Text("Nope")}
NewName == <<"T", "1", " ", "8">>

Command(method, arg1, arg2) == [method |-> method, arg1 |-> arg1, arg2 |-> arg2]

Commands ==
    {Command(m, NoArg, NoArg) : m \in {"monday", "show_board", "help"}} \cup
    {Command("show_list", a, NoArg) : a \in {Text("Done"), Text("Testing"), Text("Nope")}} \cup
    {Command("create_card", RawT1, l) : l \in ListArgs} \cup
    {Command("delete_card", a, NoArg) : a \in CardArgs} \cup
    {Command("move_card", a, l) : a \in CardArgs, l \in ListArgs} \cup
    {Command("update_card", a, NewName) : a \in CardArgs}

\* Characters of the raw names given to a lone parse_card_name call.
Alphabet == {"a", "5", "-", " "}
RawNames == UNION {[1..n -> Alphabet] : n \in 0..MaxLen}

NoCard == [id |-> "", name |-> <<>>]
NoWeek == [monday |-> 0, friday |-> 0, label |-> <<>>]

----------------------------------------------------------------------------
(* The process: construction, then run() on the parsed arguments.          *)

aux == <<today, week, card, ticket>>

\* The process ends: normally, or on an uncaught exception.
Finish(said, exc) ==
    /\ output' = output \o said
    /\ err' = exc
    /\ pc' = IF exc = NoException THEN "done" ELSE "crashed"

\* __init__: get_tickets_information fetches the four lists in order.
Construct ==
    /\ pc = "start"
    /\ \E st \in [ListNameSet -> FetchAnswers] :
         LET cardsOf(k) == board[get_list_id(ListNames[k])]
             bad == {k \in 1..Len(ListNames) :
                        st[ListNames[k]] = OK /\ ParseRaises(cardsOf(k))}
             stop == Min(bad \cup {Len(ListNames) + 1})
             said == Concat([k \in 1..Len(ListNames) |->
                                IF st[ListNames[k]] # OK THEN <<CouldNotGet>> ELSE <<>>],
                            stop - 1)
         IN  /\ output' = output \o said
             /\ IF stop <= Len(ListNames)
                THEN /\ err' = "IndexError"
                     /\ pc' = "crashed"
                     /\ UNCHANGED tickets
                ELSE /\ tickets' = [l \in ListNameSet |->
                                       IF st[l] = OK
                                       THEN ParsedList(board[get_list_id(l)])
                                       ELSE None]
                     /\ pc' = "run"
                     /\ UNCHANGED err
    /\ UNCHANGED <<args, board, nextId, edits, requests, idx, ret, aux>>

ShowBoard ==
    /\ pc = "run" /\ args.method = "show_board"
    /\ Finish(show_board(tickets).out, show_board(tickets).exc)
    /\ UNCHANGED <<args, board, nextId, edits, tickets, requests, idx, ret, aux>>

ShowList ==
    /\ pc = "run" /\ args.method = "show_list"
    /\ Finish(show_list_tickets(tickets, args.arg1).out,
              show_list_tickets(tickets, args.arg1).exc)
    /\ UNCHANGED <<args, board, nextId, edits, tickets, requests, idx, ret, aux>>

NoSuchMethod ==
    /\ pc = "run"
    /\ args.method \notin {"monday", "show_board", "show_list", "create_card",
                           "delete_card", "move_card", "update_card"}
    /\ Finish(<< <<"There is no method with such name">> >>, NoException)
    /\ UNCHANGED <<args, board, nextId, edits, tickets, requests, idx, ret, aux>>

\* run(), method create_card: create_card, then show_reply.
CreateCard ==
    /\ pc = "run" /\ args.method = "create_card"
    /\ LET list_id == get_list_id(args.arg2[1])
       IN  \E st \in Answers(list_id \in ListIds) :
             /\ requests' = Append(requests, Request("create", list_id, args.arg1, st))
             /\ board' = IF st = OK THEN RemoteCreate(board, list_id, args.arg1, nextId)
                         ELSE board
             /\ nextId' = IF st = OK THEN nextId + 1 ELSE nextId
             /\ ret' = st
             /\ Finish(<<show_reply(st, "create")>>, NoException)
    /\ UNCHANGED <<args, edits, tickets, idx, aux>>

\* run(), method delete_card: delete_card, then show_reply.
DeleteCard ==
    /\ pc = "run" /\ args.method = "delete_card"
    /\ LET card_id == ResolveCardId(tickets, args.arg1)
       IN  IF card_id.exc # NoException
           THEN /\ Finish(<<>>, card_id.exc)
                /\ UNCHANGED <<requests, board, ret>>
           ELSE \E st \in Answers(card_id.val \in RemoteCardIds(board)) :
                  /\ requests' = Append(requests,
                                        Request("delete", card_id.val, <<>>, st))
                  /\ board' = IF st = OK THEN RemoteDelete(board, card_id.val)
                              ELSE board
                  /\ ret' = st
                  /\ Finish(<<show_reply(st, "delete")>>, NoException)
    /\ UNCHANGED <<args, nextId, edits, tickets, idx, aux>>

\* run(), method update_card: update_card, then show_reply.
UpdateCard ==
    /\ pc = "run" /\ args.method = "update_card"
    /\ LET card_id == ResolveCardId(tickets, args.arg1)
       IN  IF card_id.exc # NoException
           THEN /\ Finish(<<>>, card_id.exc)
                /\ UNCHANGED <<requests, board, ret>>
           ELSE \E st \in Answers(card_id.val \in RemoteCardIds(board)) :
                  /\ requests' = Append(requests,
                                        Request("update", card_id.val, args.arg2, st))
                  /\ board' = IF st = OK
                              THEN RemoteRename(board, card_id.val, args.arg2)
                              ELSE board
                  /\ ret' = st
                  /\ Finish(<<show_reply(st, "update")>>, NoException)
    /\ UNCHANGED <<args, nextId, edits, tickets, idx, aux>>

MutMoveCardPassesStatus(delete_status, create_status) ==
    IF delete_status # OK THEN delete_status ELSE create_status

\* What move_card returns given the status of its delete request and, when
\* that was 200, of its create request (lines 155-160).
move_card_status(delete_status, create_status) ==
    IF delete_status = OK /\ create_status = OK THEN OK ELSE GENERIC_FAILURE

\* The requests move_card issues: the create only after a deletion with 200.
move_card_requests(card_id, list_id, card_name, delete_status, create_status) ==
    IF delete_status = OK
    THEN <<Request("delete", card_id, <<>>, delete_status),
           Request("create", list_id, card_name, create_status)>>
    ELSE <<Request("delete", card_id, <<>>, delete_status)>>

\* run(), method move_card: move_card, then show_reply.
MoveCard ==
    /\ pc = "run" /\ args.method = "move_card"
    /\ LET card_name == MoveCardName(tickets, args.arg1)
           card_id == ResolveCardId(tickets, card_name.val)
           list_id == get_list_id(args.arg2[1])
       IN  IF card_name.exc # NoException
           THEN /\ Finish(<<>>, card_name.exc)
                /\ UNCHANGED <<requests, board, nextId, ret>>
           ELSE IF card_id.exc # NoException
           THEN /\ Finish(<<>>, card_id.exc)
                /\ UNCHANGED <<requests, board, nextId, ret>>
           ELSE \E ds \in Answers(card_id.val \in RemoteCardIds(board)),
                   cs \in Answers(list_id \in ListIds) :
                  LET created == ds = OK /\ cs = OK
                      deleted == IF ds = OK THEN RemoteDelete(board, card_id.val)
                                 ELSE board
                  IN  /\ requests' = requests \o
                             move_card_requests(card_id.val, list_id, card_name.val, ds, cs)
                      /\ board' = IF created
                                  THEN RemoteCreate(deleted, list_id, card_name.val, nextId)
                                  ELSE deleted
                      /\ nextId' = IF created THEN nextId + 1 ELSE nextId
                      /\ ret' = move_card_status(ds, cs)
                      /\ Finish(<<show_reply(move_card_status(ds, cs), "move")>>,
                                NoException)
    /\ UNCHANGED <<args, edits, tickets, idx, aux>>

----------------------------------------------------------------------------
(* run(), method monday.                                                   *)

Done == tickets["Done"].cards

\* Another user of the board adds a card to the remote Done list after the
\* snapshot was taken.  Only the weekly report reads the board again, so the
\* change is modelled where it can be seen: before the report is built.
OtherUserAddsCard ==
    /\ pc = "run" /\ args.method = "monday"
    /\ edits < MaxEdits
    /\ \E name \in Pool :
         board' = RemoteCreate(board, DONE_LIST_ID, name, nextId)
    /\ nextId' = nextId + 1
    /\ edits' = edits + 1
    /\ UNCHANGED <<pc, args, tickets, requests, output, err, idx, ret, aux>>

\* print(self.create_letter_template())
PrintReport ==
    /\ pc = "run" /\ args.method = "monday"
    /\ \E st \in StatusCodes :
         LET r == create_letter_template(tickets, today, st, board[DONE_LIST_ID])
         IN  /\ output' = output \o r.said \o
                     (IF r.exc = NoException THEN <<r.val>> ELSE <<>>)
             /\ err' = r.exc
             /\ pc' = IF r.exc = NoException THEN "comments" ELSE "crashed"
    /\ idx' = DONE_START + 1
    /\ UNCHANGED <<args, board, nextId, edits, tickets, requests, ret, aux>>

CommentFailed == <<"Failed to move recently done cards to `All' comments\n">>

MutCommentFailedOnlyOn400(status_code) == status_code = GENERIC_FAILURE

\* The test of lines 238 and 278: the comment step failed.
comment_failed(status_code) == status_code # OK

MutDeletionFailedOnlyOn400(status_code) == status_code = GENERIC_FAILURE

\* The test of line 284: a deletion of step 3 failed.
deletion_failed(status_code) == status_code # OK

\* One pass of the loop of move_cards_name_to_comments, and run()'s test of
\* what it returns when it returns early.
PostComment ==
    /\ pc = "comments" /\ idx <= Len(Done)
    /\ \E st \in StatusCodes :
         /\ requests' = Append(requests,
                Request("comment", ALL_DONE_TICKETS_CARD_ID, Label(Done[idx]), st))
         /\ IF comment_failed(st)
            THEN /\ Finish(<<CommentFailed>>, NoException)
                 /\ UNCHANGED idx
            ELSE /\ idx' = idx + 1
                 /\ UNCHANGED <<pc, output, err>>
    /\ UNCHANGED <<args, board, nextId, edits, tickets, ret, aux>>

\* The loop ends, move_cards_name_to_comments returns 200, step 3 starts.
CommentsPosted ==
    /\ pc = "comments" /\ idx > Len(Done)
    /\ pc' = "deleting"
    /\ idx' = DONE_START + 1
    /\ UNCHANGED <<args, board, nextId, edits, tickets, requests, output, err, ret, aux>>

\* One pass of run()'s deletion loop.
DeleteDoneCard ==
    /\ pc = "deleting" /\ idx <= Len(Done)
    /\ LET card_id == ResolveCardId(tickets, Done[idx].name)
       IN  IF card_id.exc # NoException
           THEN /\ Finish(<<>>, card_id.exc)
                /\ UNCHANGED <<requests, board, idx, ret>>
           ELSE \E st \in Answers(card_id.val \in RemoteCardIds(board)) :
                  /\ requests' = Append(requests,
                                        Request("delete", card_id.val, <<>>, st))
                  /\ board' = IF st = OK THEN RemoteDelete(board, card_id.val)
                              ELSE board
                  /\ ret' = st
                  /\ IF deletion_failed(st)
                     THEN /\ Finish(<< <<"Failed to delete card ">> \o Done[idx].name
                                           \o <<"\n">> >>, NoException)
                          /\ UNCHANGED idx
                     ELSE /\ idx' = idx + 1
                          /\ UNCHANGED <<pc, output, err>>
    /\ UNCHANGED <<args, nextId, edits, tickets, aux>>

Archived == <<"Recently done cards has been successfully archived.">>

\* The deletion loop ends and the success message is printed.
CardsArchived ==
    /\ pc = "deleting" /\ idx > Len(Done)
    /\ Finish(<<Archived>>, NoException)
    /\ UNCHANGED <<args, board, nextId, edits, tickets, requests, idx, ret, aux>>

----------------------------------------------------------------------------
(* One invocation of the command-line tool.                                *)

Init ==
    /\ pc = "start"
    /\ args \in Commands
    /\ board \in Boards
    /\ nextId = MaxDone + 2
    /\ edits = 0
    /\ tickets = [l \in ListNameSet |-> None]
    /\ requests = <<>>
    /\ output = <<>>
    /\ err = NoException
    /\ idx = 0
    /\ ret = 0
    /\ today = FirstDay
    /\ week = NoWeek
    /\ card = NoCard
    /\ ticket = EmptyTicket

Next ==
    \/ Construct
    \/ ShowBoard
    \/ ShowList
    \/ NoSuchMethod
    \/ CreateCard
    \/ DeleteCard
    \/ UpdateCard
    \/ MoveCard
    \/ OtherUserAddsCard
    \/ PrintReport
    \/ PostComment
    \/ CommentsPosted
    \/ DeleteDoneCard
    \/ CardsArchived

Spec == Init /\ [][Next]_vars

----------------------------------------------------------------------------
(* parse_card_name on its own, over every raw name up to MaxLen.           *)

InitParse ==
    /\ pc = "parse"
    /\ card \in [id : {"c1"}, name : RawNames]
    /\ args = Command("", NoArg, NoArg)
    /\ board = EmptyBoard
    /\ nextId = 0
    /\ edits = 0
    /\ tickets = [l \in ListNameSet |-> None]
    /\ requests = <<>>
    /\ output = <<>>
    /\ err = NoException
    /\ idx = 0
    /\ ret = 0
    /\ today = FirstDay
    /\ week = NoWeek
    /\ ticket = EmptyTicket

ParseCard ==
    /\ pc = "parse"
    /\ ticket' = parse_card_name(card).val
    /\ err' = parse_card_name(card).exc
    /\ pc' = IF parse_card_name(card).exc = NoException THEN "done" ELSE "crashed"
    /\ UNCHANGED <<args, board, nextId, edits, tickets, requests, output, idx, ret,
                   today, week, card>>

SpecParse == InitParse /\ [][ParseCard]_vars

----------------------------------------------------------------------------
(* get_week on its own, over MaxDays consecutive days.                     *)

InitWeek ==
    /\ pc = "week"
    /\ today \in FirstDay..(FirstDay + MaxDays)
    /\ args = Command("", NoArg, NoArg)
    /\ board = EmptyBoard
    /\ nextId = 0
    /\ edits = 0
    /\ tickets = [l \in ListNameSet |-> None]
    /\ requests = <<>>
    /\ output = <<>>
    /\ err = NoException
    /\ idx = 0
    /\ ret = 0
    /\ week = NoWeek
    /\ card = NoCard
    /\ ticket = EmptyTicket

GetWeek ==
    /\ pc = "week"
    /\ week' = get_week(today)
    /\ pc' = "done"
    /\ UNCHANGED <<args, board, nextId, edits, tickets, requests, output, err, idx,
                   ret, today, card, ticket>>

SpecWeek == InitWeek /\ [][GetWeek]_vars

----------------------------------------------------------------------------
(* The properties checked.                                                 *)

Monday == args.method = "monday"

Printed(text) == \E i \in 1..Len(output) : output[i] = text

DeleteFailurePrinted ==
    \E i \in 1..Len(output) :
        Len(output[i]) > 0 /\ output[i][1] = "Failed to delete card "

Deletions == SelectSeq(requests, LAMBDA r : r.op = "delete")

\* The report has been printed; it is the first thing a monday run prints
\* when its four fetches succeeded.
ReportPrinted == Monday /\ pc \in {"comments", "deleting", "done"}
Report == output[1]

\* C1: in a monday run, once a comment request was answered with a status
\* other than 200, it stays the last request of the run (no later comment,
\* no deletion), the run has ended normally, and what was printed is the
\* report followed by the comment step's failure message only.
C1_CommentFailureStopsRollover ==
    Monday =>
        \A k \in 1..Len(requests) :
            (requests[k].op = "comment" /\ requests[k].status # OK) =>
                /\ k = Len(requests)
                /\ Len(Deletions) = 0
                /\ pc = "done" /\ err = NoException
                /\ Len(output) = 2
                /\ output[1][1] = WEEK_WORD
                /\ output[2] = CommentFailed
                /\ ~DeleteFailurePrinted
                /\ ~Printed(Archived)

\* The second comment fails after the first was posted.
C1_Witness ==
    /\ Monday
    /\ Len(requests) = 2
    /\ requests[1].op = "comment" /\ requests[1].status = OK
    /\ requests[2].op = "comment" /\ requests[2].status # OK
    /\ Len(Done) > 2
    /\ pc = "done"

\* C2: in a monday run the success message is printed only if every request
\* of the run was answered 200; a deletion answered otherwise stays the last
\* request, ends the run with its failure message and without the success
\* message; and a card deleted earlier stays deleted (nothing is created).
C2_SuccessOnlyIfAllSucceeded ==
    Monday =>
        /\ Printed(Archived) => \A k \in 1..Len(requests) : requests[k].status = OK
        /\ \A k \in 1..Len(requests) :
               (requests[k].op = "delete" /\ requests[k].status # OK) =>
                   /\ k = Len(requests)
                   /\ pc = "done" /\ err = NoException
                   /\ ~Printed(Archived)
                   /\ DeleteFailurePrinted
        /\ \A k \in 1..Len(requests) :
               /\ requests[k].op # "create"
               /\ (requests[k].op = "delete" /\ requests[k].status = OK) =>
                      requests[k].target \notin RemoteCardIds(board)

\* A deletion fails after an earlier one succeeded.
C2_Witness ==
    /\ Monday
    /\ pc = "done"
    /\ Len(Deletions) = 2
    /\ Deletions[1].status = OK
    /\ Deletions[2].status # OK
    /\ Deletions[1].target \notin RemoteCardIds(board)

\* C3: in a monday run the j-th deletion request targets the card of the
\* j-th Done ticket after the first, never a card of another list and never
\* the first card of the Done list.
C3_DeletionsTargetDoneTickets ==
    Monday =>
        \A j \in 1..Len(Deletions) :
            /\ Deletions[j].target = Done[DONE_START + j].id
            /\ Deletions[j].target # Done[1].id
            /\ \A l \in ListNameSet \ {"Done"} :
                   \A i \in 1..Len(tickets[l].cards) :
                       Deletions[j].target # tickets[l].cards[i].id

SnapshotTickets ==
    UNION {{tickets[l].cards[i] : i \in 1..Len(tickets[l].cards)} : l \in ListNameSet}

\* C4: when move_card returned 200 for an argument that is a snapshot
\* ticket's name, or its name followed by its story points, the label of the
\* card it created parses back to that name and those story points.
C4_MovePreservesStoryPoints ==
    (args.method = "move_card" /\ pc = "done" /\ ret = OK) =>
        \A t \in SnapshotTickets :
            (args.arg1 = t.name \/ args.arg1 = t.name \o <<" ">> \o t.story_points) =>
                LET created == requests[Len(requests)]
                    parsed == parse_card_name([id |-> "new", name |-> created.text]).val
                IN  /\ created.op = "create"
                    /\ parsed.name = t.name
                    /\ IntVal(parsed.story_points) = IntVal(t.story_points)

\* C5: move_card asks for the deletion first and for the creation only after
\* a deletion answered 200; it returns 200 exactly when both were answered
\* 200 and 400 otherwise, whatever the failing status was.
C5_MoveCardStatus ==
    (args.method = "move_card" /\ pc = "done") =>
        /\ Len(requests) \in {1, 2}
        /\ requests[1].op = "delete"
        /\ (requests[1].status = OK) <=> (Len(requests) = 2)
        /\ Len(requests) = 2 => requests[2].op = "create"
        /\ (ret = OK) <=> \A k \in 1..Len(requests) : requests[k].status = OK
        /\ ret # OK => ret = GENERIC_FAILURE

\* The deletion succeeded and the creation failed with a status that is not 400.
C5_Witness ==
    /\ args.method = "move_card" /\ pc = "done"
    /\ Len(requests) = 2
    /\ requests[1].status = OK
    /\ requests[2].status \notin {OK, GENERIC_FAILURE}
    /\ ret = GENERIC_FAILURE

\* C6: after a fetch of one of the four lists failed, no command ends on an
\* uncaught exception.
C6_NoFaultAfterFailedFetch ==
    (pc # "start" /\ \E l \in ListNameSet : ~tickets[l].ok) => err = NoException

\* C7: the footer of the printed report carries the sum of the story points
\* of the snapshot's Done tickets after the first, the points its Done lines
\* show.
C7_FooterIsSnapshotTotal ==
    ReportPrinted =>
        /\ Report[Len(Report) - 2] = "SP per week: "
        /\ Report[Len(Report) - 1] = ToString(SumPoints(Done, DONE_START + 1))

\* The report rendered by skipping index 0 of the Done list, without footer.
SkippingReport ==
    LET lines == << get_week(today).label \o <<":\n\n">> >> \o
                 Concat([k \in 1..Len(ListNames) |->
                            LET cards == tickets[ListNames[k]].cards
                                shown == IF ListNames[k] = "Done"
                                         THEN SubSeq(cards, DONE_START + 1, Len(cards))
                                         ELSE cards
                            IN  << <<ListNames[k], ":\n">> >> \o
                                [i \in 1..Len(shown) |-> ReportLine(shown[i])]],
                        Len(ListNames))
    IN  Concat(lines, Len(lines))

\* C8: the printed report is, up to its footer, the one obtained by
\* rendering every ticket of the first three lists and the Done tickets after
\* the first.
C8_RemovalEqualsSkippingIndex0 ==
    ReportPrinted => SubSeq(Report, 1, Len(Report) - 3) = SkippingReport

\* C9: parse_card_name raises nothing; an empty name gives the empty ticket;
\* otherwise the name is the first token, the id the card's, and the story
\* points the last token when there are several and it is an integer, else 0.
C9_ParseCardName ==
    pc # "parse" =>
        /\ err = NoException
        /\ card.name = <<>> => ticket = EmptyTicket
        /\ card.name # <<>> =>
               LET tokens == Split(card.name)
               IN  /\ ticket.id = card.id
                   /\ ticket.name = tokens[1]
                   /\ ticket.story_points =
                          IF Len(tokens) > 1 /\ IsInt(tokens[Len(tokens)])
                          THEN tokens[Len(tokens)]
                          ELSE <<"0">>

\* C10: the Monday computed is a Monday, the latest one strictly before
\* today: 7 days back when today is a Monday, weekday() days back otherwise;
\* the Friday is that Monday plus 4 days.
C10_GetWeek ==
    pc = "done" =>
        /\ (today - 1) % 7 = 0 => week.monday = today - 7
        /\ (today - 1) % 7 # 0 => week.monday = today - ((today - 1) % 7)
        /\ (week.monday - 1) % 7 = 0
        /\ week.monday < today
        /\ \A d \in (week.monday + 1)..(today - 1) : (d - 1) % 7 # 0
        /\ week.friday = week.monday + 4

\* get_week ran on a Monday.
C10_Witness ==
    /\ pc = "done"
    /\ weekday(today) = 0
    /\ week.monday = today - MONDAY_LOOKBACK
    /\ week.label # <<>>

====
